---- MODULE Spec2Model ----
(***************************************************************************)
(* XGC_Loader_BES (FPSDP/Plasma/XGC_Profile/load_XGC_BES.py): toroidal     *)
(* plane bracketing, field-line tracing and the query engine.              *)
(*                                                                         *)
(* Numbers.  numpy float64 values are modelled as extended fixed-point     *)
(* numbers: a finite integer, +inf, -inf or NaN, with the IEEE rules for   *)
(* the special values (NaN = NaN holds here: it is the same value).        *)
(* Lengths carry LenScale units per metre, angles are whole multiples of   *)
(* 2*pi/Rev, angle steps carry AngScale units per radian, weights carry    *)
(* WScale units per 1.                                                     *)
(***************************************************************************)
EXTENDS Integers, Sequences, FiniteSets, TLC

(***************************************************************************)
(* Extended numbers: the finite values are the integers strictly between   *)
(* NInf and PInf; +inf, -inf and NaN are three reserved integers.          *)
(***************************************************************************)
PInf == 10 ^ 9

NInf == -(10 ^ 9)

NaN == 2 * (10 ^ 9)

Fin(v) == v

IsFin(a) == NInf < a /\ a < PInf

IsNaN(a) == a = NaN

Abs(i) == IF i < 0 THEN -i ELSE i

Sgn(i) == IF i > 0 THEN 1 ELSE IF i < 0 THEN -1 ELSE 0

\* the sign of a value that is not NaN (of an infinity too)
XSign(a) == Sgn(a)

InfOf(s) == IF s > 0 THEN PInf ELSE NInf

\* integer quotient rounded toward zero
TDiv(a, b) == Sgn(a) * Sgn(b) * (Abs(a) \div Abs(b))

RECURSIVE ISqrtR(_, _, _)
ISqrtR(v, lo, hi) ==
    IF lo >= hi THEN lo
    ELSE LET mid == (lo + hi + 1) \div 2
         IN  IF mid * mid <= v THEN ISqrtR(v, mid, hi) ELSE ISqrtR(v, lo, mid - 1)

\* floor of the square root of a natural number below 2^30
ISqrt(v) == ISqrtR(v, 0, IF v < 32768 THEN v ELSE 32767)

XAdd(a, b) ==
    IF IsNaN(a) \/ IsNaN(b) THEN NaN
    ELSE IF IsFin(a) /\ IsFin(b) THEN a + b
    ELSE IF IsFin(a) THEN b
    ELSE IF IsFin(b) THEN a
    ELSE IF a = b THEN a ELSE NaN

XNeg(a) == IF IsNaN(a) THEN NaN ELSE -a

XSub(a, b) == XAdd(a, XNeg(b))

XMul(a, b) ==
    IF IsNaN(a) \/ IsNaN(b) THEN NaN
    ELSE IF IsFin(a) /\ IsFin(b) THEN a * b
    ELSE IF XSign(a) * XSign(b) = 0 THEN NaN
    ELSE InfOf(XSign(a) * XSign(b))

XDiv(a, b) ==
    IF IsNaN(a) \/ IsNaN(b) THEN NaN
    ELSE IF IsFin(a) /\ IsFin(b)
         THEN IF b = 0
              THEN (IF a = 0 THEN NaN ELSE InfOf(a))
              ELSE TDiv(a, b)
    ELSE IF IsFin(b) THEN InfOf(XSign(a) * (IF b < 0 THEN -1 ELSE 1))
    ELSE IF IsFin(a) THEN 0
    ELSE NaN

XSqrt(a) ==
    IF IsNaN(a) THEN NaN
    ELSE IF IsFin(a) THEN (IF a < 0 THEN NaN ELSE ISqrt(a))
    ELSE IF a = PInf THEN PInf ELSE NaN

XSq(a) == XMul(a, a)

(***************************************************************************)
(* Scales and program constants                                            *)
(***************************************************************************)
\* units per metre (len), per radian (ang), per 1 (w)
Units == [len |-> 100, ang |-> 10000, w |-> 1000]

LenScale == Units.len

AngScale == Units.ang

WScale == Units.w

\* 2*pi, in angle units: angles are whole multiples of 2*pi/Rev
Rev == 8

\* 2*pi in radians, as a fraction
TwoPi == [num |-> 710, den |-> 113]

\* sub-steps of one trace
N_step == 20

\* samples of linspace(Phimin, Phimax, 10) in __init__
NSamples == 10

(***************************************************************************)
(* Inputs of the model                                                     *)
(***************************************************************************)
\* longest batch of query points
MaxBatch == 2

\* loaded timesteps are 0 .. NumSteps-1
NumSteps == 2

\* numbers of toroidal planes of the simulation
NPlaneChoices == {1, 2, 4}

\* the limits argument of __init__, in length units: regions of interest that
\* keep every node of MeshR x MeshZ; their corners of smallest and largest
\* angle lie on an axis or a diagonal
LimitChoices ==
    { [Xmin |-> 0, Xmax |-> 400, Ymin |-> 0, Ymax |-> 400, Zmin |-> -200, Zmax |-> 200],
      [Xmin |-> 50, Xmax |-> 400, Ymin |-> -50, Ymax |-> 50, Zmin |-> -200, Zmax |-> 200] }

\* node values of the magnetic field (uniform over the mesh)
FieldChoices ==
    { [BR |-> 0, BZ |-> 0, BPhi |-> 1],
      [BR |-> 0, BZ |-> 0, BPhi |-> -1],
      [BR |-> 1, BZ |-> -1, BPhi |-> 1] }

\* R and Z of the retained mesh nodes (a rectangle of nodes), in length units
MeshR == <<100, 200, 300>>

MeshZ == <<-100, 0, 100>>

\* query points (X, Y, Z) in metres
QueryPoints ==
    << <<2, 0, 0>>, <<1, -1, 0>>, <<0, 0, 0>>, <<-2, 2, 0>>, <<0, 2, 3>> >>

\* the batches pos[..., 0:3]: points are handled one by one, so a batch is
\* taken up to the order and the repetition of its points
Batches ==
    { [k \in DOMAIN idx |-> QueryPoints[idx[k]]] :
        idx \in { q \in UNION { [1..m -> DOMAIN QueryPoints] : m \in 1..MaxBatch } :
                    \A k \in 1..(Len(q) - 1) : q[k] < q[k + 1] } }

\* the timesteps argument: an int or a list of ints
IntArg(t) == [int |-> TRUE, t |-> t, list |-> <<>>]

ListArg(l) == [int |-> FALSE, t |-> 0, list |-> l]

TimestepArgs == { IntArg(0), ListArg(<<0, 1>>) }

QuantArgs == { <<"ne">>, <<"ni">>, <<"ne", "ni">> }

(***************************************************************************)
(* Geometry helpers                                                        *)
(***************************************************************************)
\* np.arctan2(y, x) in angle units: exact on the axes and the diagonals, and
\* rounded toward zero to a whole angle unit for the other directions
arctan2(y, x) ==
    IF y = 0 THEN (IF x >= 0 THEN 0 ELSE Rev \div 2)
    ELSE LET a == IF y < 0 THEN -y ELSE y
             octant == IF x = 0 THEN Rev \div 4
                       ELSE IF x > 0 THEN (IF a >= x THEN Rev \div 8 ELSE 0)
                       ELSE (IF a > -x THEN Rev \div 4 ELSE 3 * (Rev \div 8))
         IN  IF y < 0 THEN -octant ELSE octant

SeqMin(q) == CHOOSE m \in {q[i] : i \in DOMAIN q} : \A i \in DOMAIN q : m <= q[i]

SeqMax(q) == CHOOSE m \in {q[i] : i \in DOMAIN q} : \A i \in DOMAIN q : m >= q[i]

\* an angle as a fraction num / den of angle units
Ang(num, den) == [num |-> num, den |-> den]

\* np.linspace(lo, hi, NSamples)
linspace(lo, hi) ==
    [i \in 1..NSamples |-> Ang(lo * (NSamples - 1) + (i - 1) * (hi - lo), NSamples - 1)]

\* side = 'left' in place of side = 'right'
searchsorted_left(n, a) ==
    Cardinality({k \in 0..(n - 1) : k * Rev * a.den < a.num * n})

\* np.searchsorted(phi_planes, a, side = 'right') with phi_planes[k] = k * 2*pi / n
searchsorted_right(n, a) ==
    Cardinality({k \in 0..(n - 1) : k * Rev * a.den <= a.num * n})

(***************************************************************************)
(* get_interp_planes_BES                                                   *)
(***************************************************************************)
\* the branch of line 24 taken for both senses of rotation
get_interp_planes_one_sense(n, co, phi3D) ==
    LET ss == [i \in DOMAIN phi3D |-> searchsorted_right(n, phi3D[i])]
        wrapped == [i \in DOMAIN phi3D |-> IF ss[i] = n THEN 0 ELSE ss[i]]
        less == [i \in DOMAIN phi3D |-> ss[i] - 1]
    IN  [prev |-> less, next |-> wrapped]

\* without the wrap of index n to 0 (lines 27 and 31 left out)
get_interp_planes_nowrap(n, co, phi3D) ==
    LET ss == [i \in DOMAIN phi3D |-> searchsorted_right(n, phi3D[i])]
        less == [i \in DOMAIN phi3D |-> ss[i] - 1]
    IN  IF co THEN [prev |-> less, next |-> ss]
        ELSE [prev |-> ss, next |-> less]

get_interp_planes_BES(n, co, phi3D) ==
    LET ss == [i \in DOMAIN phi3D |-> searchsorted_right(n, phi3D[i])]
        wrapped == [i \in DOMAIN phi3D |-> IF ss[i] = n THEN 0 ELSE ss[i]]
        less == [i \in DOMAIN phi3D |-> ss[i] - 1]
    IN  IF co THEN [prev |-> less, next |-> wrapped]
        ELSE [prev |-> wrapped, next |-> less]

\* np.unique of an index array, as a set
unique(q) == {q[i] : i \in DOMAIN q}

RECURSIVE SortedSeq(_)
SortedSeq(S) ==
    IF S = {} THEN <<>>
    ELSE LET m == CHOOSE x \in S : \A y \in S : x <= y
         IN  <<m>> \o SortedSeq(S \ {m})

(***************************************************************************)
(* load_mesh_psi_3D: the nodes of the mesh file kept by the limits         *)
(***************************************************************************)
\* R of a column of nodes of the mesh file that lies outside every region
FarR == 600

\* (R, Z) of the nodes of the mesh file
FileNodes ==
    { <<R, MeshZ[j]>> : R \in {MeshR[i] : i \in DOMAIN MeshR} \cup {FarR}, j \in DOMAIN MeshZ }

\* lines 71-72
Rmin(lim) == ISqrt(lim.Xmin * lim.Xmin + lim.Ymin * lim.Ymin)

Rmax(lim) == ISqrt(lim.Xmax * lim.Xmax + lim.Ymax * lim.Ymax)

\* self.ind of one node, lines 114-116
ind(lim, R, Z) ==
    /\ R > Rmin(lim) /\ R < Rmax(lim)
    /\ Z > lim.Zmin /\ Z < lim.Zmax

\* self.points: the nodes that are kept
Kept(lim) == { nd \in FileNodes : ind(lim, nd[1], nd[2]) }

MeshNodes == { <<MeshR[i], MeshZ[j]>> : i \in DOMAIN MeshR, j \in DOMAIN MeshZ }

\* the nodes in the order of the mesh file: column after column in ascending
\* R, each column in ascending Z; node numbers start at 0
FileOrder ==
    LET cols == MeshR \o <<FarR>>
    IN  [i \in 1..(Len(cols) * Len(MeshZ)) |->
            <<cols[((i - 1) \div Len(MeshZ)) + 1], MeshZ[((i - 1) % Len(MeshZ)) + 1]>>]

\* mesh['nextnode'] of the file: the number of the node that follows node i
\* on its flux surface (a column, taken round)
mesh_nextnode(i) ==
    ((i \div Len(MeshZ)) * Len(MeshZ)) + (((i % Len(MeshZ)) + 1) % Len(MeshZ))

\* the file numbers of the nodes self.ind selects, in file order
KeptNumbers(lim) ==
    SelectSeq([i \in DOMAIN FileOrder |-> i - 1],
              LAMBDA i : ind(lim, FileOrder[i + 1][1], FileOrder[i + 1][2]))

\* (R, Z) of self.points, lines 117-119
points(lim) == [j \in DOMAIN KeptNumbers(lim) |-> FileOrder[KeptNumbers(lim)[j] + 1]]

\* line 124: self.nextnode = mesh['nextnode'][self.ind]
nextnode(lim) ==
    [j \in DOMAIN KeptNumbers(lim) |-> mesh_nextnode(KeptNumbers(lim)[j])]

\* lines 126-132: self.prevnode[i] is the first position whose nextnode is i,
\* or -1
prevnode(lim) ==
    [j \in DOMAIN KeptNumbers(lim) |->
        LET from == {k \in DOMAIN nextnode(lim) : nextnode(lim)[k] = j - 1}
        IN  IF from # {} THEN (CHOOSE k \in from : \A q \in from : k <= q) - 1 ELSE -1]

(***************************************************************************)
(* Interpolants built by load_mesh_psi_3D and load_B_3D                    *)
(***************************************************************************)
\* inside the convex hull of the retained mesh nodes (MeshR, MeshZ ascend)
InHull(Z, R) ==
    /\ MeshR[1] <= R /\ R <= MeshR[Len(MeshR)]
    /\ MeshZ[1] <= Z /\ Z <= MeshZ[Len(MeshZ)]

\* psi on the mesh nodes grows linearly with R from 0
MeshPsi(R) == R - MeshR[1]

\* fill value max(psi)
psi_interp(Z, R) ==
    IF InHull(Z, R) THEN Fin(MeshPsi(R)) ELSE Fin(MeshPsi(MeshR[Len(MeshR)]))

BR_interp(b, Z, R) == IF InHull(Z, R) THEN Fin(b.BR) ELSE PInf

BZ_interp(b, Z, R) == IF InHull(Z, R) THEN Fin(b.BZ) ELSE PInf

\* fill value sign(BPhi[0]) * min |BPhi|
BPhi_interp(b, Z, R) == IF InHull(Z, R) THEN Fin(b.BPhi) ELSE Fin(Sgn(b.BPhi) * Abs(b.BPhi))

(***************************************************************************)
(* find_interp_positions                                                   *)
(***************************************************************************)
\* n * phi_planes[idx], Python indexing (idx = -1 is the last plane)
phi_planes(n, idx) == ((idx + n) % n) * Rev

\* n * phiFWD and n * phiBWD of one point, lines 318-323
phiFWD(n, co, prevp, nextp, phi) ==
    IF co THEN (IF nextp = 0 THEN Rev * n - phi * n ELSE phi_planes(n, nextp) - phi * n)
    ELSE phi_planes(n, nextp) - phi * n

phiBWD(n, co, prevp, nextp, phi) ==
    IF co THEN phi_planes(n, prevp) - phi * n
    ELSE (IF prevp = 0 THEN Rev * n - phi * n ELSE phi_planes(n, prevp) - phi * n)

\* phiX / N_step in radians (angle scale), from n * phiX in angle units
dphi_of(n, phiN) ==
    Fin(TDiv(phiN * TwoPi.num * (AngScale \div ((Rev * N_step) \div 2)), n * 2 * TwoPi.den))

\* the sentinel test of lines 341-345 and 356-359
clamp_inf(d) == IF d = PInf THEN Fin(0) ELSE d

\* one direction of one pass of the loop of lines 334-363
sub_step(b, st, dphi) ==
    LET RdPhi == XDiv(XMul(st.R, dphi), Fin(AngScale))
        BPhi == BPhi_interp(b, st.Z, st.R)
        dR == clamp_inf(XDiv(XMul(RdPhi, BR_interp(b, st.Z, st.R)), BPhi))
        dZ == clamp_inf(XDiv(XMul(RdPhi, BZ_interp(b, st.Z, st.R)), BPhi))
    IN  [ R |-> XAdd(st.R, dR),
          Z |-> XAdd(st.Z, dZ),
          s |-> XAdd(st.s, XSqrt(XAdd(XAdd(XSq(RdPhi), XSq(dR)), XSq(dZ)))) ]

\* the value of a one-element set: Only({e(x) : x \in {v}}) evaluates v once
Only(S) == CHOOSE x \in S : TRUE

\* i passes of the loop from state st: the first half of the passes, then
\* the rest from the state they reach
RECURSIVE trace_loop(_, _, _, _)
trace_loop(b, st, dphi, i) ==
    IF i = 0 THEN st
    ELSE IF i = 1 THEN sub_step(b, st, dphi)
    ELSE Only({ trace_loop(b, mid, dphi, i - (i \div 2)) :
                mid \in {trace_loop(b, st, dphi, i \div 2)} })

\* interp_positions of one point, lines 365-372
interp_position(n, co, b, prevp, nextp, r, z, phi) ==
    LET start == [R |-> r, Z |-> z, s |-> Fin(0)]
        F == trace_loop(b, start, dphi_of(n, phiFWD(n, co, prevp, nextp, phi)), N_step)
        Bk == trace_loop(b, start, dphi_of(n, phiBWD(n, co, prevp, nextp, phi)), N_step)
        wb == XDiv(XMul(Bk.s, Fin(WScale)), XAdd(Bk.s, F.s))
    IN  [ Z_BWD |-> Bk.Z, R_BWD |-> Bk.R, w_BWD |-> wb,
          Z_FWD |-> F.Z, R_FWD |-> F.R, w_FWD |-> XSub(Fin(WScale), wb) ]

\* plane arrays of length 1 broadcast over the batch; other length mismatches
\* make the in-place updates of the loop raise
shapes_fit(planeArr, r) == Len(planeArr) = Len(r) \/ Len(planeArr) = 1

at(planeArr, i) == IF Len(planeArr) = 1 THEN planeArr[1] ELSE planeArr[i]

find_interp_positions(n, co, b, prevplane_, nextplane_, r, z, phi) ==
    IF ~shapes_fit(prevplane_, r)
    THEN [err |-> "ValueError", ip |-> <<>>]
    ELSE [err |-> "",
          ip |-> [i \in DOMAIN r |->
                    interp_position(n, co, b, at(prevplane_, i), at(nextplane_, i),
                                    r[i], z[i], phi[i])]]

(***************************************************************************)
(* Equilibrium profiles (load_eq_2D3D, simulation with electron dynamics)  *)
(***************************************************************************)
eq_psi == <<0, 100, 200>>

eq_ne == <<100, 80, 50>>

eq_te == <<20, 10, 4>>

eq_ni == <<90, 70, 40>>

eq_ti == <<30, 20, 10>>

\* the end segments continued past the samples, in place of the fill value
interp1d_extrapolate(xs, ys, fill, x) ==
    IF IsNaN(x) THEN NaN
    ELSE LET i == IF x < xs[1] THEN 1
                  ELSE IF x > xs[Len(xs)] THEN Len(xs) - 1
                  ELSE CHOOSE k \in 1..(Len(xs) - 1) : xs[k] <= x /\ x <= xs[k + 1]
         IN  Fin(ys[i] + TDiv((ys[i + 1] - ys[i]) * (x - xs[i]), xs[i + 1] - xs[i]))

\* scipy interp1d(xs, ys, bounds_error = False, fill_value = fill), linear
interp1d(xs, ys, fill, x) ==
    IF IsNaN(x) THEN NaN
    ELSE IF x < xs[1] \/ x > xs[Len(xs)] THEN Fin(fill)
    ELSE LET i == CHOOSE k \in 1..(Len(xs) - 1) : xs[k] <= x /\ x <= xs[k + 1]
         IN  Fin(ys[i] + TDiv((ys[i + 1] - ys[i]) * (x - xs[i]), xs[i + 1] - xs[i]))

ne0_sp(psi) == interp1d(eq_psi, eq_ne, SeqMin(eq_ne) \div 10, psi)

ni0_sp(psi) == interp1d(eq_psi, eq_ni, SeqMin(eq_ni) \div 10, psi)

te0_sp(psi) == interp1d(eq_psi, eq_te, SeqMin(eq_te) \div 2, psi)

ti0_sp(psi) == interp1d(eq_psi, eq_ti, 0, psi)

\* self.psi on the nodes of column i of the mesh, and lines 235-239: the
\* equilibrium on those nodes
node_psi(i) == Fin(MeshPsi(MeshR[i]))

te0(i) == te0_sp(node_psi(i))

ne0(i) == ne0_sp(node_psi(i))

ti0(i) == ti0_sp(node_psi(i))

ni0(i) == ni0_sp(node_psi(i))

(***************************************************************************)
(* calc_total_ne_2D3D, at one node of one plane at one timestep            *)
(***************************************************************************)
\* without the division by the temperature
dn_ad_unscaled(n0, t0, pot) == IF t0 > 0 THEN n0 * pot ELSE 0

\* the division done wherever the temperature is not zero
dn_ad_nonzero(n0, t0, pot) == IF t0 # 0 THEN TDiv(n0 * pot, t0) ELSE 0

\* lines 268-270 and 281-283: n0 * phi / t0 where t0 > 0, else the initial 0
dn_ad(n0, t0, pot) == IF t0 > 0 THEN TDiv(n0 * pot, t0) ELSE 0

\* the total with line 274 (288) left out: the sum starts from 0
calc_total_from_zero(n0, t0, pot, na) ==
    LET ad == dn_ad(n0, t0, pot)
        with_ad == IF Abs(ad) <= Abs(n0) THEN ad ELSE 0
    IN  IF Abs(na) <= Abs(with_ad) THEN with_ad + na ELSE with_ad

\* the non-adiabatic term tested against the equilibrium density
calc_total_raw_test(n0, t0, pot, na) ==
    LET ad == dn_ad(n0, t0, pot)
        with_ad == IF Abs(ad) <= Abs(n0) THEN n0 + ad ELSE n0
    IN  IF Abs(na) <= Abs(n0) THEN with_ad + na ELSE with_ad

\* the total with neither test
calc_total_untested(n0, t0, pot, na) == n0 + dn_ad(n0, t0, pot) + na

\* lines 271-277 for the electrons, 284-292 for the ions
calc_total(n0, t0, pot, na) ==
    LET ad == dn_ad(n0, t0, pot)
        with_ad == IF Abs(ad) <= Abs(n0) THEN n0 + ad ELSE n0
    IN  IF Abs(na) <= Abs(with_ad) THEN with_ad + na ELSE with_ad

(***************************************************************************)
(* Loader state                                                            *)
(***************************************************************************)
VARIABLES
    n_plane,      \* self.n_plane
    CO_DIR,       \* self.CO_DIR
    B,            \* node values behind self.BR_interp, BZ_interp, BPhi_interp
    Phimin,       \* self.Phimin
    Phimax,       \* self.Phimax
    planes,       \* self.planes (sorted)
    ne,           \* self.ne[time][j][i], j a place of self.planes, i a column of nodes
    ni,           \* self.ni[time][j][i]
    prevplane,    \* self.prevplane
    nextplane,    \* self.nextplane
    out,          \* the last call made on the loader and what it returned
    first_trace,  \* the first direct call of find_interp_positions that returned
    th            \* the threads that run interpolate_data side by side

snapshot == <<n_plane, CO_DIR, B, Phimin, Phimax, planes, ne, ni>>

vars == <<n_plane, CO_DIR, B, Phimin, Phimax, planes, ne, ni, prevplane, nextplane,
          out, first_trace, th>>

Times == 0..(NumSteps - 1)

\* 'dpot', 'eden' and 'iden' of simulation plane k in the file of timestep t
\* (the same on every node); a run without perturbation has them all 0
dpot(on, t, k) == IF on THEN k ELSE 0

eden(on, t, k) == IF on THEN 10 * (t + 1) + 3 * k ELSE 0

iden(on, t, k) == IF on THEN 20 * (t + 1) + 7 * k ELSE 0

\* angles of the four corners of the region of interest, lines 73-78
corner_phi(lim) ==
    << arctan2(lim.Ymin, lim.Xmin), arctan2(lim.Ymax, lim.Xmin),
       arctan2(lim.Ymin, lim.Xmax), arctan2(lim.Ymax, lim.Xmax) >>

NoCall == [op |-> "none"]

\* the loader as __init__ leaves it; np.unique of the two index sets stacked in
\* one array needs them to have the same size, else the constructor raises.
\* self.ne[t][j] and self.ni[t][j] hold one value per column of nodes.
Constructed(n, lim, b, on) ==
    LET lo == SeqMin(corner_phi(lim))
        hi == SeqMax(corner_phi(lim))
        co == Sgn(b.BPhi) > 0
        pl == get_interp_planes_BES(n, co, linspace(lo, hi))
        ps == SortedSeq(unique(pl.prev) \cup unique(pl.next))
    IN  /\ Kept(lim) = MeshNodes
        /\ Cardinality(unique(pl.prev)) = Cardinality(unique(pl.next))
        /\ n_plane = n
        /\ CO_DIR = co
        /\ B = b
        /\ Phimin = lo
        /\ Phimax = hi
        /\ prevplane = pl.prev
        /\ nextplane = pl.next
        /\ planes = ps
        /\ ne = [t \in Times |-> [j \in DOMAIN ps |-> [i \in DOMAIN MeshR |->
                    calc_total(ne0(i), te0(i), dpot(on, t, ps[j] % n), eden(on, t, ps[j] % n))]]]
        /\ ni = [t \in Times |-> [j \in DOMAIN ps |-> [i \in DOMAIN MeshR |->
                    calc_total(ni0(i), ti0(i), dpot(on, t, ps[j] % n), iden(on, t, ps[j] % n))]]]

Threads == {1, 2}

IdleThread == [pc |-> "idle"]

Init ==
    /\ \E n \in NPlaneChoices, lim \in LimitChoices, b \in FieldChoices :
           Constructed(n, lim, b, TRUE)
    /\ out = NoCall
    /\ first_trace = NoCall
    /\ th = [t \in Threads |-> IdleThread]

(***************************************************************************)
(* interpolate_data                                                        *)
(***************************************************************************)
\* scipy griddata(self.points, values, (Z, R), method = 'cubic', fill_value = 0)
\* for values v[i] on the columns of nodes: exact on the nodes, linear in R
\* between two columns
griddata(v, Z, R) ==
    IF ~InHull(Z, R) THEN Fin(0)
    ELSE LET i == CHOOSE k \in 1..(Len(MeshR) - 1) : MeshR[k] <= R /\ R <= MeshR[k + 1]
         IN  Fin(v[i] + TDiv((v[i + 1] - v[i]) * (R - MeshR[i]), MeshR[i + 1] - MeshR[i]))

\* lines 391-393: r, z, phi of the batch
pos_r(pos) == [i \in DOMAIN pos |-> Fin(ISqrt((pos[i][1] * pos[i][1] + pos[i][2] * pos[i][2]) * LenScale * LenScale))]

pos_z(pos) == [i \in DOMAIN pos |-> Fin(pos[i][3] * LenScale)]

pos_phi(pos) == [i \in DOMAIN pos |-> arctan2(pos[i][2], pos[i][1])]

\* line 394: the brackets of the batch
brackets(n, co, pos) ==
    get_interp_planes_BES(n, co, [i \in DOMAIN pos |-> Ang(pos_phi(pos)[i], 1)])

\* np.where(planeArr == k)[0], 1-based
where_eq(planeArr, k) == {i \in DOMAIN planeArr : planeArr[i] = k}

\* an index array built from planeArr reaches past the batch
index_error(planes_, planeArr, npts) ==
    \E j \in DOMAIN planes_ : \E i \in where_eq(planeArr, planes_[j]) : i > npts

\* lines 423-436: the values of one side; side is "BWD" (prevn) or "FWD" (nextn)
side_values(planes_, field_t, planeArr, ip, side) ==
    [i \in DOMAIN ip |->
        IF i \in DOMAIN planeArr /\ \E j \in DOMAIN planes_ : planeArr[i] = planes_[j]
        THEN LET j == CHOOSE jj \in DOMAIN planes_ : planeArr[i] = planes_[jj]
             IN  IF side = "BWD" THEN griddata(field_t[j], ip[i].Z_BWD, ip[i].R_BWD)
                 ELSE griddata(field_t[j], ip[i].Z_FWD, ip[i].R_FWD)
        ELSE Fin(0)]

\* each side weighted by its own weight
blend_uncrossed(prevn, nextn, ip) ==
    [i \in DOMAIN ip |-> XAdd(XMul(prevn[i], ip[i].w_BWD), XMul(nextn[i], ip[i].w_FWD))]

\* line 438: prevn * interp_positions[1,2] + nextn * interp_positions[0,2]
blend(prevn, nextn, ip) ==
    [i \in DOMAIN ip |-> XAdd(XMul(prevn[i], ip[i].w_FWD), XMul(nextn[i], ip[i].w_BWD))]

\* one pass of the loop of line 420 for the electrons
ne_row(planes_, field_t, prevArr, nextArr, ip) ==
    blend(side_values(planes_, field_t, prevArr, ip, "BWD"),
          side_values(planes_, field_t, nextArr, ip, "FWD"), ip)

\* the timesteps argument as a list, lines 389-390
as_list(tsArg) == IF tsArg.int THEN <<tsArg.t>> ELSE tsArg.list

Has(quant, name) == \E i \in DOMAIN quant : quant[i] = name

\* a returned array: its shape and its rows (a 1-D array has one row)
Arr1(row) == [shape |-> <<Len(row)>>, rows |-> <<row>>]

Arr2(rows, npts) == [shape |-> <<Len(rows), npts>>, rows |-> rows]

\* lines 454-471: the tuple returned, one entry per recognised name of quant
ret_tuple(quant, ts, eq, ne_, ni_, Te, Ti) ==
    LET pick(a) == IF Len(ts) = 1 /\ ~eq THEN Arr1(a.rows[1]) ELSE a
        entry(name) ==
            IF name = "ne" THEN <<[q |-> "ne", val |-> pick(ne_)]>>
            ELSE IF name = "ni" THEN <<[q |-> "ni", val |-> pick(ni_)]>>
            ELSE IF name = "Ti" THEN <<[q |-> "Ti", val |-> Ti]>>
            ELSE IF name = "Te" THEN <<[q |-> "Te", val |-> Te]>>
            ELSE <<>>
        RECURSIVE build(_)
        build(k) == IF k > Len(quant) THEN <<>> ELSE entry(quant[k]) \o build(k + 1)
    IN  build(1)

\* the whole call on one thread: what it returns or raises, and the brackets
\* it leaves in self.prevplane, self.nextplane
interpolate_data(n, co, b, planes_, ne_, ni_, pos, tsArg, quant, eq) ==
    LET ts == as_list(tsArg)
        r == pos_r(pos)
        z == pos_z(pos)
        phi == pos_phi(pos)
        pl == brackets(n, co, pos)
        psi == [i \in DOMAIN pos |-> psi_interp(z[i], r[i])]
        Te == Arr1([i \in DOMAIN pos |-> te0_sp(psi[i])])
        Ti == Arr1([i \in DOMAIN pos |-> ti0_sp(psi[i])])
        tr == find_interp_positions(n, co, b, pl.prev, pl.next, r, z, phi)
        full_ne == Arr2([i \in DOMAIN ts |-> ne_row(planes_, ne_[ts[i]], pl.prev, pl.next, tr.ip)],
                        Len(pos))
        \* ni is only left at its zeros when the loop of line 420 runs no pass
        full_ni == Arr2([i \in DOMAIN ts |-> [k \in DOMAIN pos |-> Fin(0)]], Len(pos))
        eq_ne_ == Arr1([i \in DOMAIN pos |-> ne0_sp(psi[i])])
        eq_ni_ == Arr1([i \in DOMAIN pos |-> ni0_sp(psi[i])])
        base == [op |-> "interpolate_data", pos |-> pos, ts |-> ts, quant |-> quant, eq |-> eq,
                 prev |-> pl.prev, next |-> pl.next]
    IN  IF eq
        THEN base @@ [err |-> "", ip |-> <<>>,
                      ret |-> ret_tuple(quant, ts, eq, eq_ne_, eq_ni_, Te, Ti)]
        ELSE IF tr.err # ""
        THEN base @@ [err |-> tr.err, ip |-> <<>>, ret |-> <<>>]
        ELSE IF Has(quant, "ni") /\ Len(ts) > 0
        \* prev_idx, prevni and nextni are not defined on these paths
        THEN base @@ [err |-> "NameError", ip |-> <<>>, ret |-> <<>>]
        ELSE base @@ [err |-> "", ip |-> tr.ip,
                      ret |-> ret_tuple(quant, ts, eq, full_ne, full_ni, Te, Ti)]

(***************************************************************************)
(* Calls made on a constructed loader, one at a time                       *)
(***************************************************************************)
\* angles handed to a direct call of get_interp_planes_BES
AngleArgs == (-(Rev \div 2))..Rev

\* interpolate_data(pos, timesteps, quant, eq)
Query(pos, tsArg, quant, eq) ==
    /\ out.op = "none"
    /\ \E res \in {interpolate_data(n_plane, CO_DIR, B, planes, ne, ni, pos, tsArg, quant, eq)} :
           /\ out' = res
           /\ prevplane' = res.prev
           /\ nextplane' = res.next
    /\ UNCHANGED <<snapshot, first_trace, th>>

\* get_interp_planes_BES(self, [phi])
BracketCall(phi) ==
    /\ out.op = "none"
    /\ LET pl == get_interp_planes_BES(n_plane, CO_DIR, <<Ang(phi, 1)>>)
       IN  out' = [op |-> "get_interp_planes_BES", phi |-> phi,
                   prev |-> pl.prev[1], next |-> pl.next[1]]
    /\ UNCHANGED <<snapshot, prevplane, nextplane, first_trace, th>>

\* find_interp_positions(r, z, phi) called on the loader, with the r, z, phi of pos
TraceCall(pos) ==
    /\ out.op = "none"
    /\ \E res \in {find_interp_positions(n_plane, CO_DIR, B, prevplane, nextplane,
                                         pos_r(pos), pos_z(pos), pos_phi(pos))} :
           /\ out' = [op |-> "find_interp_positions", pos |-> pos,
                      err |-> res.err, ip |-> res.ip]
           /\ first_trace' = IF first_trace.op = "none" /\ res.err = ""
                             THEN [op |-> "find_interp_positions", pos |-> pos, ip |-> res.ip]
                             ELSE first_trace
    /\ UNCHANGED <<snapshot, prevplane, nextplane, th>>

\* the caller takes the result and the loader is free for the next call
Return ==
    /\ out.op # "none"
    /\ out' = NoCall
    /\ UNCHANGED <<snapshot, prevplane, nextplane, first_trace, th>>

Next ==
    \/ \E pos \in Batches, tsArg \in TimestepArgs, quant \in QuantArgs, eq \in BOOLEAN :
           Query(pos, tsArg, quant, eq)
    \/ \E phi \in AngleArgs : BracketCall(phi)
    \/ Return

Spec == Init /\ [][Next]_vars

\* batches of one point
PointBatches == { b \in Batches : Len(b) = 1 }

\* direct traces between equilibrium queries
NextTrace ==
    \/ \E pos \in PointBatches : Query(pos, IntArg(0), <<"ne">>, TRUE)
    \/ \E pos \in PointBatches : TraceCall(pos)
    \/ Return

SpecTrace == Init /\ [][NextTrace]_vars

\* quant arguments with temperatures and with a name the loader does not know
NameArgs == { <<"dens">>, <<"ne", "dens">>, <<"Te">>, <<"ne", "Te", "Ti">> }

KnownNames == {"ne", "ni", "Te", "Ti"}

\* queries by name
NextNames ==
    \/ \E pos \in PointBatches, quant \in NameArgs, eq \in BOOLEAN :
           Query(pos, IntArg(0), quant, eq)
    \/ Return

SpecNames == Init /\ [][NextNames]_vars

\* values of one node handed to calc_total_ne_2D3D: equilibrium density and
\* temperature, potential, non-adiabatic density
DensityChoices == {-10, 0, 10, 80}

TemperatureChoices == {-5, 0, 5}

PotentialChoices == {-10, -5, -2, 0, 2, 5, 10}

NonAdiabaticChoices == {-100, -6, -5, 0, 5, 6, 8, 20, 100}

\* calc_total_ne_2D3D at one node, for the electrons ("ne") or the ions ("ni")
Reconstruct(species, n0, t0, pot, na) ==
    /\ out.op = "none"
    /\ out' = [op |-> "calc_total_ne_2D3D", species |-> species,
               n0 |-> n0, t0 |-> t0, pot |-> pot, na |-> na,
               ad |-> dn_ad(n0, t0, pot),
               total |-> calc_total(n0, t0, pot, na)]
    /\ UNCHANGED <<snapshot, prevplane, nextplane, first_trace, th>>

NextRecon ==
    \/ \E species \in {"ne", "ni"}, n0 \in DensityChoices, t0 \in TemperatureChoices,
          pot \in PotentialChoices, na \in NonAdiabaticChoices :
           Reconstruct(species, n0, t0, pot, na)
    \/ Return

SpecRecon == Init /\ [][NextRecon]_vars

\* a loader built from a run whose 'dpot', 'eden' and 'iden' are all zero
InitZero ==
    /\ \E n \in NPlaneChoices, lim \in LimitChoices, b \in FieldChoices :
           Constructed(n, lim, b, FALSE)
    /\ out = NoCall
    /\ first_trace = NoCall
    /\ th = [t \in Threads |-> IdleThread]

\* electron density queries, in both modes
NextZero ==
    \/ \E pos \in PointBatches, tsArg \in TimestepArgs, eq \in BOOLEAN :
           Query(pos, tsArg, <<"ne">>, eq)
    \/ Return

SpecZero == InitZero /\ [][NextZero]_vars

\* flux values at which the equilibrium profiles are evaluated
PsiChoices == {-50, 0, 50, 100, 150, 200, 250, 300}

ProfileNames == {"ne0_sp", "ni0_sp", "te0_sp", "ti0_sp"}

\* self.ne0_sp(psi), self.ni0_sp(psi), self.te0_sp(psi), self.ti0_sp(psi)
Evaluate(name, psi) ==
    /\ out.op = "none"
    /\ out' = [op |-> name, psi |-> psi,
               val |-> CASE name = "ne0_sp" -> ne0_sp(Fin(psi))
                         [] name = "ni0_sp" -> ni0_sp(Fin(psi))
                         [] name = "te0_sp" -> te0_sp(Fin(psi))
                         [] name = "ti0_sp" -> ti0_sp(Fin(psi))]
    /\ UNCHANGED <<snapshot, prevplane, nextplane, first_trace, th>>

NextProfile ==
    \/ \E name \in ProfileNames, psi \in PsiChoices : Evaluate(name, psi)
    \/ Return

SpecProfile == Init /\ [][NextProfile]_vars

\* regions of interest handed to a further construction: the two of
\* LimitChoices, regions that keep no node, and regions that keep one column
\* or one row of nodes
BuildLimits ==
    LimitChoices \cup
    { [Xmin |-> 100, Xmax |-> 100, Ymin |-> -100, Ymax |-> 100, Zmin |-> -200, Zmax |-> 200],
      [Xmin |-> -300, Xmax |-> 300, Ymin |-> -300, Ymax |-> 300, Zmin |-> -200, Zmax |-> 200],
      [Xmin |-> 0, Xmax |-> 400, Ymin |-> 0, Ymax |-> 400, Zmin |-> 300, Zmax |-> 400],
      [Xmin |-> 0, Xmax |-> 50, Ymin |-> 0, Ymax |-> 50, Zmin |-> -200, Zmax |-> 200],
      [Xmin |-> 0, Xmax |-> 100, Ymin |-> 0, Ymax |-> 100, Zmin |-> -200, Zmax |-> 200],
      [Xmin |-> 0, Xmax |-> 400, Ymin |-> 0, Ymax |-> 400, Zmin |-> -50, Zmax |-> 50],
      [Xmin |-> 100, Xmax |-> 400, Ymin |-> 100, Ymax |-> 400, Zmin |-> -200, Zmax |-> 200] }

\* the kept nodes span no triangle: Delaunay triangulation fails on them
Degenerate(nodes) ==
    \/ Cardinality({nd[1] : nd \in nodes}) < 2
    \/ Cardinality({nd[2] : nd \in nodes}) < 2

\* XGC_Loader_BES(xgc_path, t_start, t_end, dt, limits) up to the end of
\* load_mesh_psi_3D: the nodes kept and the exception of line 135, if any.
\* np.max(self.psi) of an empty array raises before the interpolant is built.
Construct(lim) ==
    /\ out.op = "none"
    /\ out' = [op |-> "__init__", limits |-> lim, kept |-> Kept(lim),
               points |-> points(lim), nextnode |-> nextnode(lim),
               prevnode |-> prevnode(lim),
               err |-> IF Kept(lim) = {} THEN "ValueError"
                       ELSE IF Degenerate(Kept(lim)) THEN "QhullError"
                       ELSE "",
               raised_in |-> IF Kept(lim) = {} THEN "np.max"
                             ELSE IF Degenerate(Kept(lim)) THEN "CloughTocher2DInterpolator"
                             ELSE ""]
    /\ UNCHANGED <<snapshot, prevplane, nextplane, first_trace, th>>

NextBuild ==
    \/ \E lim \in BuildLimits : Construct(lim)
    \/ Return

SpecBuild == Init /\ [][NextBuild]_vars

\* node values of a magnetic field whose toroidal component vanishes
WeakFieldChoices ==
    { [BR |-> 1, BZ |-> 0, BPhi |-> 0],
      [BR |-> -1, BZ |-> 1, BPhi |-> 0],
      [BR |-> 0, BZ |-> 0, BPhi |-> 0] }

\* a loader built on such a field
InitWeakField ==
    /\ \E n \in NPlaneChoices, lim \in LimitChoices, b \in WeakFieldChoices :
           Constructed(n, lim, b, TRUE)
    /\ out = NoCall
    /\ first_trace = NoCall
    /\ th = [t \in Threads |-> IdleThread]

NextWeakField ==
    \/ \E pos \in Batches : Query(pos, IntArg(0), <<"ne">>, FALSE)
    \/ Return

SpecWeakField == InitWeakField /\ [][NextWeakField]_vars

\* attributes __init__ sets itself before its first loading step, lines 51-78
Preamble ==
    {"xgc_path", "mesh_file", "bfield_file", "time_steps", "unit_file",
     "te_input_file", "ne_input_file", "unit_dic", "tstep", "dt", "t",
     "Xmin", "Xmax", "Ymin", "Ymax", "Zmin", "Zmax", "Rmin", "Rmax",
     "Phimin", "Phimax"}

\* the planes bracketed before the field is loaded
InitSteps_planes_first ==
    << "load_mesh_psi_3D", "get_interp_planes_BES", "load_B_3D", "load_eq_2D3D",
       "load_fluctuations_3D_all", "calc_total_ne_2D3D" >>

\* the loading steps of __init__ in the order of lines 80-101
InitSteps ==
    << "load_mesh_psi_3D", "load_B_3D", "get_interp_planes_BES", "load_eq_2D3D",
       "load_fluctuations_3D_all", "calc_total_ne_2D3D" >>

\* the attributes of self a step reads before writing them itself, and the
\* attributes it writes
StepReads(step) ==
    CASE step = "load_mesh_psi_3D" ->
             {"mesh_file", "Rmin", "Rmax", "Zmin", "Zmax", "xgc_path", "time_steps"}
      [] step = "load_B_3D" -> {"bfield_file", "ind", "points"}
      [] step = "get_interp_planes_BES" -> {"Phimin", "Phimax", "n_plane", "CO_DIR"}
      [] step = "load_eq_2D3D" -> {"xgc_path", "psi"}
      [] step = "load_fluctuations_3D_all" ->
             {"xgc_path", "time_steps", "prevplane", "nextplane", "mesh", "ind", "n_plane"}
      [] step = "calc_total_ne_2D3D" ->
             {"ne0", "te0", "ni0", "ti0", "phi", "nane", "nani", "time_steps",
              "planes", "points"}

StepWrites(step) ==
    CASE step = "load_mesh_psi_3D" ->
             {"ind", "points", "mesh", "nextnode", "prevnode", "psi", "psi_interp",
              "n_plane"}
      [] step = "load_B_3D" ->
             {"BR", "BZ", "BPhi", "BR_interp", "BZ_interp", "BPhi_interp", "CO_DIR"}
      [] step = "get_interp_planes_BES" -> {"prevplane", "nextplane"}
      [] step = "load_eq_2D3D" ->
             {"ti0_sp", "ni0_sp", "HaveElectron", "te0_sp", "ne0_sp",
              "te0", "ne0", "ti0", "ni0"}
      [] step = "load_fluctuations_3D_all" -> {"planes", "planeID", "nane", "nani", "phi"}
      [] step = "calc_total_ne_2D3D" ->
             {"dne_ad", "ne", "dni_ad", "ni", "ni_interp", "ne_interp"}

\* the attributes interpolate_data and find_interp_positions read
QueryReads ==
    {"n_plane", "CO_DIR", "BR_interp", "BZ_interp", "BPhi_interp", "planes",
     "points", "ne", "ni", "psi_interp", "ne0_sp", "ni0_sp", "te0_sp", "ti0_sp",
     "prevplane", "nextplane"}

\* the exception a step raises on the data of the run, "" if none: the mesh
\* step on limits that keep no triangle, np.unique on two index sets of
\* different sizes
DataError(step, lim) ==
    IF step = "load_mesh_psi_3D" /\ Kept(lim) = {} THEN "ValueError"
    ELSE IF step = "load_mesh_psi_3D" /\ Degenerate(Kept(lim)) THEN "QhullError"
    ELSE IF step = "load_fluctuations_3D_all"
            /\ LET pl == get_interp_planes_BES(n_plane, CO_DIR,
                             linspace(SeqMin(corner_phi(lim)), SeqMax(corner_phi(lim))))
               IN  Cardinality(unique(pl.prev)) # Cardinality(unique(pl.next))
         THEN "ValueError"
    ELSE ""

\* XGC_Loader_BES(xgc_path, t_start, t_end, dt, limits) enters __init__ and
\* runs lines 51-78
BeginInit(lim) ==
    /\ out.op = "none"
    /\ out' = [op |-> "constructing", limits |-> lim, pc |-> 1,
               attrs |-> Preamble, err |-> ""]
    /\ UNCHANGED <<snapshot, prevplane, nextplane, first_trace, th>>

\* the next loading step of __init__: reading an attribute that no earlier
\* step has set raises AttributeError
RunStep ==
    /\ out.op = "constructing" /\ out.err = "" /\ out.pc <= Len(InitSteps)
    /\ LET step == InitSteps[out.pc]
       IN  out' = IF ~(StepReads(step) \subseteq out.attrs)
                  THEN [out EXCEPT !.err = "AttributeError"]
                  ELSE IF DataError(step, out.limits) # ""
                  THEN [out EXCEPT !.err = DataError(step, out.limits)]
                  ELSE [out EXCEPT !.pc = out.pc + 1,
                                   !.attrs = out.attrs \cup StepWrites(step)]
    /\ UNCHANGED <<snapshot, prevplane, nextplane, first_trace, th>>

\* __init__ has returned the loader and the caller starts a query on it
FirstQuery ==
    /\ out.op = "constructing" /\ out.err = "" /\ out.pc > Len(InitSteps)
    /\ out' = [op |-> "first_query", limits |-> out.limits, attrs |-> out.attrs]
    /\ UNCHANGED <<snapshot, prevplane, nextplane, first_trace, th>>

\* the exception of a failed construction, or the result of the query,
\* reaches the caller
Leave ==
    /\ \/ out.op = "constructing" /\ out.err # ""
       \/ out.op = "first_query"
    /\ out' = NoCall
    /\ UNCHANGED <<snapshot, prevplane, nextplane, first_trace, th>>

NextSteps ==
    \/ \E lim \in BuildLimits : BeginInit(lim)
    \/ RunStep
    \/ FirstQuery
    \/ Leave

SpecSteps == Init /\ [][NextSteps]_vars

(***************************************************************************)
(* The GTC spline evaluators, Diagnoser and AlphaDiagnoser                  *)
(***************************************************************************)
\* psi is counted in hundredths: PsiUnit is psi = 1
PsiUnit == 100

\* self.npsi, self.ntheta, self.nzeta of the diagnostic file, and
\* self._psi_separatrix
npsi == 5

ntheta == 5

nzeta == 5

psi_separatrix == 2

\* self._dpsi = 1./(npsi-1), self._dtheta and self._dzeta = 2 pi/(n-1)
dpsi == PsiUnit \div (npsi - 1)

dtheta == Rev \div (ntheta - 1)

dzeta == Rev \div (nzeta - 1)

\* numpy indexing of an axis of length len by n: n in -len..len-1 is taken,
\* a negative n counting from the end; anything else raises IndexError
index_ok(len, n) == -len <= n /\ n < len

index_row(len, n) == (n + len) % len

\* the coefficient arrays: self.g, self.I, self.q (npsi rows of 3), self.x,
\* self.z, self.b, the two jacobians (ntheta x npsi rows of 9), self._raw_alpha
\* (nzeta x ntheta x npsi rows of 27); every row differs from every other
Tables1d == {"g_sp", "I_sp", "q_sp"}

Tables2d == {"x_sp", "z_sp", "b_sp", "jm_sp", "jb_sp"}

TableBase(name) ==
    CASE name = "g_sp" -> 1 [] name = "I_sp" -> 2 [] name = "q_sp" -> 3
      [] name = "x_sp" -> 4 [] name = "z_sp" -> 5 [] name = "b_sp" -> 6
      [] name = "jm_sp" -> 7 [] name = "jb_sp" -> 8 [] name = "alpha_sp" -> 9

ysp1(name, n, c) == TableBase(name) + 10 * n + c

ysp2(name, m, n, c) == TableBase(name) + 100 * m + 10 * n + c

ysp3(name, k, j, i, c) == TableBase(name) + 1000 * k + 100 * j + 10 * i + c

\* x ** k for k in 0..2, and the factor of a derivative: k * x ** max(0, k-1)
Pow(x, k) == IF k = 0 THEN 1 ELSE IF k = 1 THEN x ELSE x * x

DPow(x, k) == k * Pow(x, IF k = 0 THEN 0 ELSE k - 1)

\* Diagnoser._sp1d(psi, ysp), lines 31-36
sp1d(name, psi) ==
    LET n == psi \div dpsi
        psi_r == psi - n * dpsi
        psi_re == psi_r * psi_separatrix
        row == index_row(npsi, n)
    IN  IF ~index_ok(npsi, n) THEN [err |-> "IndexError", n |-> n, val |-> 0]
        ELSE [err |-> "", n |-> n,
              val |-> ysp1(name, row, 0) + ysp1(name, row, 1) * psi_re
                      + ysp1(name, row, 2) * psi_re * psi_re]

\* Diagnoser._sp2d(psi, theta, ysp), lines 45-64
sp2d(name, psi, theta) ==
    LET th0 == theta % Rev
        n == psi \div dpsi
        psi_r == psi - n * dpsi
        psi_re == psi_r * psi_separatrix
        m == th0 \div dtheta
        theta_re == th0 - m * dtheta
        row == index_row(npsi, n)
        c(a, b) == ysp2(name, index_row(ntheta, m), row, 3 * a + b)
        part(a) == c(a, 0) + c(a, 1) * psi_re + c(a, 2) * psi_re * psi_re
    IN  IF psi > PsiUnit THEN [err |-> "ValueError", n |-> n, val |-> 0]
        ELSE IF ~index_ok(npsi, n) \/ ~index_ok(ntheta, m)
        THEN [err |-> "IndexError", n |-> n, val |-> 0]
        ELSE [err |-> "", n |-> n,
              val |-> part(0) + part(1) * theta_re + part(2) * theta_re * theta_re]

\* AlphaDiagnoser._sp3d(psi, theta, zeta, deriv, ysp), lines 118-164
sp3d(name, psi, theta, zeta, deriv) ==
    LET th0 == theta % Rev
        ze0 == zeta % Rev
        i == psi \div dpsi
        psi_r == psi - i * dpsi
        psi_re0 == psi_r * psi_separatrix
        psi_re == IF i = 0 THEN ISqrt(psi_re0) ELSE psi_re0
        j == th0 \div dtheta
        theta_re == th0 - j * dtheta
        k == ze0 \div dzeta
        zeta_re == ze0 - k * dzeta
        dx(m, n, p) ==
            (IF deriv = 1 THEN DPow(psi_re, p) ELSE Pow(psi_re, p))
            * (IF deriv = 2 THEN DPow(theta_re, n) ELSE Pow(theta_re, n))
            * (IF deriv = 3 THEN DPow(zeta_re, m) ELSE Pow(zeta_re, m))
        c(m, n, p) == ysp3(name, index_row(nzeta, k), index_row(ntheta, j),
                           index_row(npsi, i), 9 * m + 3 * n + p)
        sum_p(m, n) == c(m, n, 0) * dx(m, n, 0) + c(m, n, 1) * dx(m, n, 1)
                       + c(m, n, 2) * dx(m, n, 2)
        sum_n(m) == sum_p(m, 0) + sum_p(m, 1) + sum_p(m, 2)
    IN  IF deriv > 3 \/ deriv < 0 THEN [err |-> "ValueError", n |-> i, val |-> 0]
        ELSE IF psi > PsiUnit THEN [err |-> "ValueError", n |-> i, val |-> 0]
        ELSE IF ~index_ok(npsi, i) \/ ~index_ok(ntheta, j) \/ ~index_ok(nzeta, k)
        THEN [err |-> "IndexError", n |-> i, val |-> 0]
        ELSE [err |-> "", n |-> i, val |-> sum_n(0) + sum_n(1) + sum_n(2)]

\* arguments handed to the evaluators
SplinePsiChoices == {-130, -125, -30, -1, 0, 10, 50, 99, 100, 101, 110, 130}

SplineAngleChoices == {-1, 0, 3, 8}

DerivChoices == {-1, 0, 1, 2, 3, 4}

\* g_sp, I_sp, q_sp
Spline1d(name, psi) ==
    /\ out.op = "none"
    /\ \E res \in {sp1d(name, psi)} :
           out' = [op |-> name, psi |-> psi, err |-> res.err, n |-> res.n,
                   val |-> res.val]
    /\ UNCHANGED <<snapshot, prevplane, nextplane, first_trace, th>>

\* x_sp, z_sp, b_sp, jm_sp, jb_sp
Spline2d(name, psi, theta) ==
    /\ out.op = "none"
    /\ \E res \in {sp2d(name, psi, theta)} :
           out' = [op |-> name, psi |-> psi, theta |-> theta, err |-> res.err,
                   n |-> res.n, val |-> res.val]
    /\ UNCHANGED <<snapshot, prevplane, nextplane, first_trace, th>>

\* alpha_sp
Spline3d(psi, theta, zeta, deriv) ==
    /\ out.op = "none"
    /\ \E res \in {sp3d("alpha_sp", psi, theta, zeta, deriv)} :
           out' = [op |-> "alpha_sp", psi |-> psi, theta |-> theta, zeta |-> zeta,
                   deriv |-> deriv, err |-> res.err, n |-> res.n, val |-> res.val]
    /\ UNCHANGED <<snapshot, prevplane, nextplane, first_trace, th>>

NextSpline ==
    \/ \E name \in Tables1d, psi \in SplinePsiChoices : Spline1d(name, psi)
    \/ \E name \in Tables2d, psi \in SplinePsiChoices, theta \in SplineAngleChoices :
           Spline2d(name, psi, theta)
    \/ \E psi \in SplinePsiChoices, theta \in SplineAngleChoices, deriv \in DerivChoices :
           Spline3d(psi, theta, Rev - theta, deriv)
    \/ Return

SpecSpline == Init /\ [][NextSpline]_vars

\* numbers of planes whose spacing is below a ninth of the angular width of
\* the regions of LimitChoices
DensePlaneChoices == {40, 80}

\* a loader built on a simulation with that many planes
InitDense ==
    /\ \E n \in DensePlaneChoices, lim \in LimitChoices, b \in FieldChoices :
           Constructed(n, lim, b, TRUE)
    /\ out = NoCall
    /\ first_trace = NoCall
    /\ th = [t \in Threads |-> IdleThread]

\* query points at the angles 0, pi/4, -pi/4 and pi/2, inside the mesh hull
RegionPoints == { <<2, 0, 0>>, <<1, 1, 0>>, <<1, -1, 0>>, <<0, 2, 0>> }

RegionBatches ==
    { <<p>> : p \in RegionPoints } \cup { <<p, q>> : p, q \in RegionPoints }

NextDense ==
    \/ \E pos \in RegionBatches, tsArg \in TimestepArgs :
           Query(pos, tsArg, <<"ne">>, FALSE)
    \/ Return

SpecDense == InitDense /\ [][NextDense]_vars

(***************************************************************************)
(* Two threads in interpolate_data on the same loader                      *)
(***************************************************************************)
\* lines 389-394: the batch is turned into r, z, phi and its brackets are
\* stored in self.prevplane, self.nextplane
Start(t, pos, tsArg, quant, eq) ==
    /\ th[t].pc = "idle"
    /\ \E pl \in {brackets(n_plane, CO_DIR, pos)} :
           /\ prevplane' = pl.prev
           /\ nextplane' = pl.next
    /\ th' = [th EXCEPT ![t] = [pc |-> "bracketed", pos |-> pos, tsArg |-> tsArg,
                                quant |-> quant, eq |-> eq]]
    /\ UNCHANGED <<snapshot, out, first_trace>>

\* what a thread holds when its call is over
Finished(c, err, ret) ==
    [pc |-> "done", pos |-> c.pos, tsArg |-> c.tsArg, quant |-> c.quant, eq |-> c.eq,
     err |-> err, ret |-> ret]

\* lines 396-419: psi, the equilibrium values and the trace, which reads
\* self.prevplane and self.nextplane (line 312)
Positions(t) ==
    /\ th[t].pc = "bracketed"
    /\ LET c == th[t]
           r == pos_r(c.pos)
           z == pos_z(c.pos)
           psi == [i \in DOMAIN c.pos |-> psi_interp(z[i], r[i])]
           Te == Arr1([i \in DOMAIN c.pos |-> te0_sp(psi[i])])
           Ti == Arr1([i \in DOMAIN c.pos |-> ti0_sp(psi[i])])
           eq_ne_ == Arr1([i \in DOMAIN c.pos |-> ne0_sp(psi[i])])
           eq_ni_ == Arr1([i \in DOMAIN c.pos |-> ni0_sp(psi[i])])
           none == Arr2(<<>>, Len(c.pos))
       IN  IF c.eq
           THEN th' = [th EXCEPT ![t] =
                         Finished(c, "", ret_tuple(c.quant, as_list(c.tsArg), TRUE,
                                                   eq_ne_, eq_ni_, Te, Ti))]
           ELSE \E tr \in {find_interp_positions(n_plane, CO_DIR, B, prevplane, nextplane,
                                                 r, z, pos_phi(c.pos))} :
                    th' = [th EXCEPT ![t] =
                             IF tr.err # "" THEN Finished(c, tr.err, <<>>)
                             ELSE IF as_list(c.tsArg) = <<>>
                             THEN Finished(c, "", ret_tuple(c.quant, <<>>, FALSE,
                                                            none, none, Te, Ti))
                             ELSE [pc |-> "traced", pos |-> c.pos, tsArg |-> c.tsArg,
                                   quant |-> c.quant, eq |-> c.eq,
                                   ip |-> tr.ip, rows |-> <<>>]]
    /\ UNCHANGED <<snapshot, prevplane, nextplane, out, first_trace>>

\* one pass of the loop of line 420, which reads self.prevplane and
\* self.nextplane again (lines 430-431); the last pass goes on to the return
Pass(t) ==
    /\ th[t].pc = "traced"
    /\ LET c == th[t]
           ts == as_list(c.tsArg)
           i == Len(c.rows) + 1
           r == pos_r(c.pos)
           z == pos_z(c.pos)
           psi == [k \in DOMAIN c.pos |-> psi_interp(z[k], r[k])]
           Te == Arr1([k \in DOMAIN c.pos |-> te0_sp(psi[k])])
           Ti == Arr1([k \in DOMAIN c.pos |-> ti0_sp(psi[k])])
           rows == Append(c.rows, ne_row(planes, ne[ts[i]], prevplane, nextplane, c.ip))
           full_ne == Arr2(rows, Len(c.pos))
       IN  th' = [th EXCEPT ![t] =
                    IF Has(c.quant, "ne")
                       /\ (index_error(planes, prevplane, Len(c.pos))
                           \/ index_error(planes, nextplane, Len(c.pos)))
                    THEN Finished(c, "IndexError", <<>>)
                    ELSE IF Has(c.quant, "ni") THEN Finished(c, "NameError", <<>>)
                    ELSE IF i = Len(ts)
                    THEN Finished(c, "", ret_tuple(c.quant, ts, FALSE, full_ne, full_ne, Te, Ti))
                    ELSE [c EXCEPT !.rows = rows]]
    /\ UNCHANGED <<snapshot, prevplane, nextplane, out, first_trace>>

NextConc ==
    \/ \E t \in Threads, pos \in PointBatches, tsArg \in TimestepArgs, eq \in BOOLEAN :
           Start(t, pos, tsArg, <<"ne">>, eq)
    \/ \E t \in Threads : Positions(t)
    \/ \E t \in Threads : Pass(t)

SpecConc == Init /\ [][NextConc]_vars

(***************************************************************************)
(* Properties of the calls                                                 *)
(***************************************************************************)
\* the last call was a full-mode interpolate_data that returned
FullQueryDone == out.op = "interpolate_data" /\ ~out.eq /\ out.err = ""

BracketDone == out.op = "get_interp_planes_BES"

\* plane k is one of self.planes, and its place there
Loaded(k) == \E j \in DOMAIN planes : planes[j] = k

PlaneSlot(k) == CHOOSE j \in DOMAIN planes : planes[j] = k

\* the array returned for quantity name by the last call
RetVal(name) == out.ret[CHOOSE k \in DOMAIN out.ret : out.ret[k].q = name].val

Returned(name) == \E k \in DOMAIN out.ret : out.ret[k].q = name

\* the plane values of point p at pass i of the last query, for field f
ValueBackward(f, i, p) ==
    griddata(f[out.ts[i]][PlaneSlot(out.prev[p])], out.ip[p].Z_BWD, out.ip[p].R_BWD)

ValueForward(f, i, p) ==
    griddata(f[out.ts[i]][PlaneSlot(out.next[p])], out.ip[p].Z_FWD, out.ip[p].R_FWD)

\* value_backward * weight_forward + value_forward * weight_backward
CrossedBlend(f, i, p) ==
    XAdd(XMul(ValueBackward(f, i, p), out.ip[p].w_FWD),
         XMul(ValueForward(f, i, p), out.ip[p].w_BWD))

\* C1: for every point of a trace result the two weights are numbers of
\* [0, 1] that sum to 1.
C1_WeightsSumToOne ==
    FullQueryDone =>
        \A p \in DOMAIN out.ip :
            /\ IsFin(out.ip[p].w_BWD) /\ IsFin(out.ip[p].w_FWD)
            /\ out.ip[p].w_BWD + out.ip[p].w_FWD = WScale
            /\ 0 <= out.ip[p].w_BWD /\ out.ip[p].w_BWD <= WScale
            /\ 0 <= out.ip[p].w_FWD /\ out.ip[p].w_FWD <= WScale

\* C2: for every angle of [-pi, pi], every nPlanes > 1 and both rotation
\* senses the bracketer returns two different indices of 0..nPlanes-1.
C2_BracketValid ==
    (BracketDone /\ n_plane > 1 /\ -(Rev \div 2) <= out.phi /\ out.phi <= Rev \div 2) =>
        /\ out.prev # out.next
        /\ out.prev \in 0..(n_plane - 1)
        /\ out.next \in 0..(n_plane - 1)

\* the query angle of the last bracketer call is the angle of plane k
OnPlane(k) == out.phi * n_plane = k * Rev

\* C3, as claimed: co-rotating, angle equal to the angle of plane k: nextPlane
\* is k and prevPlane is one less (nPlanes - 1 for k = 0).
C3_NextIsThatPlane ==
    (BracketDone /\ CO_DIR) =>
        \A k \in 0..(n_plane - 1) :
            OnPlane(k) => out.next = k /\ out.prev = (k + n_plane - 1) % n_plane

\* C3, amended: co-rotating, angle equal to the angle of plane k: prevPlane is
\* k and nextPlane is the plane after it, (k + 1) mod nPlanes.
C3_PrevIsThatPlane ==
    (BracketDone /\ CO_DIR) =>
        \A k \in 0..(n_plane - 1) :
            OnPlane(k) => out.prev = k /\ out.next = (k + 1) % n_plane

C3_Witness ==
    BracketDone /\ CO_DIR /\ n_plane = 4 /\ out.phi = 0 /\ out.prev = 0 /\ out.next = 1

\* C4: co-rotating, angle strictly between the angles of plane k and plane
\* k+1: prevPlane = k and nextPlane = (k+1) mod nPlanes.
C4_Between ==
    (BracketDone /\ CO_DIR) =>
        \A k \in 0..(n_plane - 1) :
            (k * Rev < out.phi * n_plane /\ out.phi * n_plane < (k + 1) * Rev) =>
                out.prev = k /\ out.next = (k + 1) % n_plane

\* nPlanes = 4 and angle 3*pi/4 give prevPlane = 1, nextPlane = 2; the last
\* gap gives nextPlane = 0
C4_Witness ==
    /\ BracketDone /\ CO_DIR /\ n_plane = 4
    /\ \/ out.phi = 3 * (Rev \div 8) /\ out.prev = 1 /\ out.next = 2
       \/ out.phi = 7 * (Rev \div 8) /\ out.prev = 3 /\ out.next = 0

\* C5: the traced R and Z of every point are finite after all sub-steps,
\* also when sub-steps met the +inf sentinel outside the hull.
C5_TraceStaysFinite ==
    FullQueryDone =>
        \A p \in DOMAIN out.ip :
            /\ IsFin(out.ip[p].R_BWD) /\ IsFin(out.ip[p].Z_BWD)
            /\ IsFin(out.ip[p].R_FWD) /\ IsFin(out.ip[p].Z_FWD)

\* C6: a call of interpolate_data, returning or raising, leaves every
\* attribute of the loader as it was.
C6_SnapshotUnchanged ==
    [][out'.op = "interpolate_data" =>
          /\ snapshot' = snapshot
          /\ prevplane' = prevplane
          /\ nextplane' = nextplane]_vars

\* C9: in full mode the electron density returned for a timestep and a point
\* whose two bracket planes are loaded is value_backward * weight_forward +
\* value_forward * weight_backward.
C9_CrossedBlend ==
    (FullQueryDone /\ Returned("ne")) =>
        \A i \in DOMAIN out.ts, p \in DOMAIN out.pos :
            (Loaded(out.prev[p]) /\ Loaded(out.next[p])) =>
                RetVal("ne").rows[i][p] = CrossedBlend(ne, i, p)

\* a returned value where the crossing shows: unequal weights, unequal plane values
C9_Witness ==
    /\ FullQueryDone /\ Returned("ne")
    /\ \E i \in DOMAIN out.ts, p \in DOMAIN out.pos :
          /\ Loaded(out.prev[p]) /\ Loaded(out.next[p])
          /\ IsFin(out.ip[p].w_BWD) /\ out.ip[p].w_BWD # out.ip[p].w_FWD
          /\ ValueBackward(ne, i, p) # ValueForward(ne, i, p)
          /\ ValueBackward(ne, i, p) # 0 /\ ValueForward(ne, i, p) # 0
          /\ RetVal("ne").rows[i][p] = CrossedBlend(ne, i, p)

\* C10: a full-mode query that asks for 'ni' returns, for every timestep and
\* point with loaded bracket planes, the crossed blend of self.ni.
C10_IonBlend ==
    (out.op = "interpolate_data" /\ ~out.eq /\ Has(out.quant, "ni")) =>
        /\ out.err = ""
        /\ Returned("ni")
        /\ \A i \in DOMAIN out.ts, p \in DOMAIN out.pos :
              (Loaded(out.prev[p]) /\ Loaded(out.next[p])) =>
                  RetVal("ni").rows[i][p] = CrossedBlend(ni, i, p)

\* what the call of thread t returns or raises when it runs alone
Alone(t) ==
    interpolate_data(n_plane, CO_DIR, B, planes, ne, ni,
                     th[t].pos, th[t].tsArg, th[t].quant, th[t].eq)

\* C7: under any interleaving of two calls, each call returns exactly what it
\* returns when it runs alone.
C7_AsIfAlone ==
    \A t \in Threads :
        th[t].pc = "done" => th[t].err = Alone(t).err /\ th[t].ret = Alone(t).ret

\* C8: two direct calls of find_interp_positions with the same r, z, phi on
\* the same loader return the same trace result, whatever ran in between.
C8_SameArgsSameTrace ==
    (out.op = "find_interp_positions" /\ out.err = ""
        /\ first_trace.op = "find_interp_positions" /\ first_trace.pos = out.pos) =>
        out.ip = first_trace.ip

\* C11: a query that names a quantity other than ne, ni, Te, Ti fails with a
\* MissingQuantityError: it returns nothing for the call.
C11_UnknownNameFails ==
    (out.op = "interpolate_data" /\ \E k \in DOMAIN out.quant : out.quant[k] \notin KnownNames) =>
        out.err = "MissingQuantityError"

\* C12: every density array returned has shape (len(timesteps), len(points)),
\* or (len(points),) when one timestep is asked with eq = False; so with eq = True.
C12_DensityShape ==
    (out.op = "interpolate_data" /\ out.err = "") =>
        \A k \in DOMAIN out.ret :
            out.ret[k].q \in {"ne", "ni"} =>
                out.ret[k].val.shape =
                    IF Len(out.ts) = 1 /\ ~out.eq THEN <<Len(out.pos)>>
                    ELSE <<Len(out.ts), Len(out.pos)>>

ReconDone == out.op = "calc_total_ne_2D3D"

\* the adiabatic term n0 * phi / t0 of the last reconstruction (t0 > 0)
Adiabatic == TDiv(out.n0 * out.pot, out.t0)

\* C13: with zero potential and zero non-adiabatic perturbation the total
\* density is the equilibrium density, for electrons and ions and for every
\* equilibrium density and temperature, temperatures <= 0 included.
C13_ZeroPerturbation ==
    (ReconDone /\ out.pot = 0 /\ out.na = 0) => out.total = out.n0

C13_Witness ==
    /\ ReconDone /\ out.pot = 0 /\ out.na = 0
    /\ out.t0 <= 0 /\ out.n0 = 80 /\ out.species = "ni" /\ out.total = 80

\* C14: where the adiabatic term is larger in magnitude than the equilibrium
\* density, the total density is the equilibrium density, whatever the
\* non-adiabatic perturbation.
C14_GuardKeepsEquilibrium ==
    (ReconDone /\ out.t0 > 0 /\ Abs(Adiabatic) > Abs(out.n0)) => out.total = out.n0

\* C15: where temperature > 0, |adiabatic| <= |equilibrium| and
\* |nonAdiabatic| <= |equilibrium + adiabatic|, the total density is
\* equilibrium + adiabatic + nonAdiabatic.
C15_GuardBypassed ==
    (ReconDone /\ out.t0 > 0 /\ Abs(Adiabatic) <= Abs(out.n0)
        /\ Abs(out.na) <= Abs(out.n0 + Adiabatic)) =>
        out.total = out.n0 + Adiabatic + out.na

C15_Witness ==
    /\ ReconDone /\ out.t0 > 0 /\ Adiabatic # 0 /\ out.na # 0
    /\ Abs(Adiabatic) <= Abs(out.n0) /\ Abs(out.na) <= Abs(out.n0 + Adiabatic)
    /\ out.total = out.n0 + Adiabatic + out.na

\* the electron density an equilibrium-mode query returns for point p of the
\* last query
EqNe(p) ==
    interpolate_data(n_plane, CO_DIR, B, planes, ne, ni,
                     out.pos, [int |-> FALSE, t |-> 0, list |-> out.ts], <<"ne">>, TRUE).ret[1].val.rows[1][p]

\* C16: on a loader whose perturbation fields are all zero, the full-mode
\* query returns for every timestep and point the density the equilibrium-mode
\* query returns, traced positions outside the hull included.
C16_PathsAgree ==
    (FullQueryDone /\ Returned("ne")) =>
        \A i \in DOMAIN out.ts, p \in DOMAIN out.pos :
            RetVal("ne").rows[i][p] = XMul(EqNe(p), Fin(WScale))

\* the fixed value of each profile outside its samples, lines 217-228
Fallback(name) ==
    CASE name = "ne0_sp" -> SeqMin(eq_ne) \div 10
      [] name = "ni0_sp" -> SeqMin(eq_ni) \div 10
      [] name = "te0_sp" -> SeqMin(eq_te) \div 2
      [] name = "ti0_sp" -> 0

\* C17: a profile evaluated below its smallest or above its largest flux
\* sample returns its fixed fallback value, never an extrapolated one.
C17_FallbackOutsideRange ==
    (out.op \in ProfileNames /\ (out.psi < SeqMin(eq_psi) \/ out.psi > SeqMax(eq_psi))) =>
        out.val = Fallback(out.op)

\* densities 100, 80, 50 at flux 0, 100, 200 with fallback 5, evaluated at 300
C17_Witness ==
    out.op = "ne0_sp" /\ out.psi = 300 /\ out.val = 5

\* C18: when the limits keep no node of the mesh, construction fails with a
\* GeometryError raised by the filtering step.
C18_EmptyMeshGeometryError ==
    (out.op = "__init__" /\ out.kept = {}) =>
        out.err = "GeometryError" /\ out.raised_in = "load_mesh_psi_3D"

\* C19: where the toroidal field is zero, the sub-steps of a point that
\* starts inside the hull leave its R, Z and weights finite.
C19_ZeroBPhiStaysFinite ==
    (FullQueryDone /\ B.BPhi = 0) =>
        \A p \in DOMAIN out.pos :
            InHull(pos_z(out.pos)[p], pos_r(out.pos)[p]) =>
                /\ IsFin(out.ip[p].R_BWD) /\ IsFin(out.ip[p].Z_BWD)
                /\ IsFin(out.ip[p].R_FWD) /\ IsFin(out.ip[p].Z_FWD)
                /\ IsFin(out.ip[p].w_BWD) /\ IsFin(out.ip[p].w_FWD)

\* what the bracketer returns for the angle of the last call under the other
\* sense of rotation
OtherSense == get_interp_planes_BES(n_plane, ~CO_DIR, <<Ang(out.phi, 1)>>)

\* C20: for every angle the counter-rotating bracket is the co-rotating one
\* with the roles swapped, the wrap of index nPlanes to 0 falling on prevPlane.
C20_RolesSwap ==
    BracketDone =>
        /\ out.prev = OtherSense.next[1]
        /\ out.next = OtherSense.prev[1]
        /\ ~CO_DIR => out.prev # n_plane /\ (out.next = n_plane - 1 => out.prev = 0)

\* a counter-rotating call in the last gap: prevPlane wraps to 0
C20_Witness ==
    /\ BracketDone /\ ~CO_DIR /\ n_plane = 4 /\ out.phi = 7 * (Rev \div 8)
    /\ out.prev = 0 /\ out.next = 3
    /\ OtherSense.prev[1] = 3 /\ OtherSense.next[1] = 0

\* the density after the adiabatic stage of the last reconstruction
\* (lines 273-275, 287-289)
AfterAdiabatic ==
    IF Abs(out.ad) <= Abs(out.n0) THEN out.n0 + out.ad ELSE out.n0

\* C21: the adiabatic perturbation is n0 * potential / T where T > 0 and
\* exactly zero where T <= 0, for electrons and ions alike: nothing is
\* divided by a temperature that is not positive.
C21_AdiabaticTerm ==
    ReconDone =>
        out.ad = IF out.t0 > 0 THEN TDiv(out.n0 * out.pot, out.t0) ELSE 0

C21_Witness ==
    /\ ReconDone /\ out.species = "ni" /\ out.t0 < 0
    /\ out.n0 # 0 /\ out.pot # 0 /\ out.ad = 0

\* C22: the non-adiabatic term is added exactly where its magnitude is at
\* most the magnitude of the density already corrected by the adiabatic
\* stage, equality included; it is not tested against the raw equilibrium
\* density where the adiabatic term was applied.
C22_NonAdiabaticTest ==
    ReconDone =>
        out.total = IF Abs(out.na) <= Abs(AfterAdiabatic)
                    THEN AfterAdiabatic + out.na ELSE AfterAdiabatic

C22_Witness ==
    /\ ReconDone /\ out.ad # 0 /\ AfterAdiabatic = out.n0 + out.ad
    /\ Abs(out.na) = Abs(AfterAdiabatic) /\ Abs(out.na) > Abs(out.n0)
    /\ out.total = AfterAdiabatic + out.na

\* C30: wherever the equilibrium density is >= 0 the total density lies
\* between 0 and four times the equilibrium density, whatever the
\* potential, the temperature and the non-adiabatic perturbation.
C30_TotalBounded ==
    (ReconDone /\ out.n0 >= 0) => (0 <= out.total /\ out.total <= 4 * out.n0)

C30_Witness ==
    /\ ReconDone /\ out.n0 > 0 /\ out.total = 4 * out.n0
\* the samples each profile interpolates, lines 215-224
Samples(name) ==
    CASE name = "ne0_sp" -> eq_ne
      [] name = "ni0_sp" -> eq_ni
      [] name = "te0_sp" -> eq_te
      [] name = "ti0_sp" -> eq_ti

\* C23: outside its samples each profile returns the fallback of its kind:
\* a tenth of the smallest sample for the two densities, half the smallest
\* sample for the two temperatures; no fallback is negative and, the
\* samples being positive, the temperature fallbacks are strictly positive.
C23_FallbackOfItsKind ==
    (out.op \in ProfileNames /\ (out.psi < SeqMin(eq_psi) \/ out.psi > SeqMax(eq_psi))) =>
        /\ out.val >= 0
        /\ out.op \in {"ne0_sp", "ni0_sp"} => out.val = SeqMin(Samples(out.op)) \div 10
        /\ out.op \in {"te0_sp", "ti0_sp"} =>
               out.val = SeqMin(Samples(out.op)) \div 2 /\ out.val > 0
\* nPlanes times the tracer's angular distances to the two planes of the
\* last bracketer call (lines 318-323)
DistForward == phiFWD(n_plane, CO_DIR, out.prev, out.next, out.phi)

DistBackward == phiBWD(n_plane, CO_DIR, out.prev, out.next, out.phi)

\* C28: for every angle of [-pi, pi] and both senses, the tracer's angular
\* distances to the two bracket planes have opposite signs (or one is zero),
\* each is at most one plane spacing in magnitude, and the magnitudes sum to
\* exactly one plane spacing.
C28_DistancesSpanOneSpacing ==
    (BracketDone /\ -(Rev \div 2) <= out.phi /\ out.phi <= Rev \div 2) =>
        /\ DistForward * DistBackward <= 0
        /\ Abs(DistForward) <= Rev /\ Abs(DistBackward) <= Rev
        /\ Abs(DistForward) + Abs(DistBackward) = Rev
\* point p of the last query has R > 0 and the angle of loaded plane k
PointOnPlane(p, k) ==
    /\ pos_r(out.pos)[p] > 0
    /\ pos_phi(out.pos)[p] * n_plane = k * Rev
    /\ Loaded(k)

\* the field of plane k at timestep index i, interpolated at the (R, Z) of
\* point p itself
PlaneValueAtPoint(f, i, p, k) ==
    griddata(f[out.ts[i]][PlaneSlot(k)], pos_z(out.pos)[p], pos_r(out.pos)[p])

\* C29: for a query point with R > 0 whose angle is the angle of sampled
\* plane k, the full-mode density is exactly the field of plane k
\* interpolated at the point's own (R, Z), the other plane weighing 0, in
\* both rotation senses.
C29_OnPlaneIsThatPlane ==
    (FullQueryDone /\ Returned("ne")) =>
        \A i \in DOMAIN out.ts, p \in DOMAIN out.pos, k \in 0..(n_plane - 1) :
            PointOnPlane(p, k) =>
                RetVal("ne").rows[i][p] = XMul(PlaneValueAtPoint(ne, i, p, k), Fin(WScale))
\* point p of the last query lies in the angular range of the region
InRegion(p) ==
    Phimin <= pos_phi(out.pos)[p] /\ pos_phi(out.pos)[p] <= Phimax

\* C26: the loaded plane set contains every plane needed: for every query
\* point whose angle lies in [Phimin, Phimax] both bracket planes are members
\* of self.planes.
C26_RegionPlanesLoaded ==
    FullQueryDone =>
        \A p \in DOMAIN out.pos :
            InRegion(p) => Loaded(out.prev[p]) /\ Loaded(out.next[p])
\* the attributes written by the first k steps of the claimed order
WrittenBy(k) ==
    Preamble \cup UNION { StepWrites(s) :
        s \in { << "load_mesh_psi_3D", "load_B_3D", "get_interp_planes_BES",
                    "load_eq_2D3D", "load_fluctuations_3D_all",
                    "calc_total_ne_2D3D" >>[j] : j \in 1..k } }

\* C24: construction runs mesh, field, planes, equilibrium, per-timestep
\* fields, total density in that order; no step reads an attribute that an
\* earlier step has not written; a query starts only on a loader on which all
\* six steps have run.
C24_StepsInOrder ==
    /\ out.op = "constructing" =>
           /\ out.err # "AttributeError"
           /\ out.attrs = WrittenBy(out.pc - 1)
    /\ out.op = "first_query" =>
           /\ out.attrs = WrittenBy(6)
           /\ QueryReads \subseteq out.attrs

C24_Witness ==
    out.op = "first_query" /\ {"ne", "ni", "planes", "CO_DIR"} \subseteq out.attrs
\* the place in self.points of the node with file number i, 0 if it was
\* filtered out
PlaceOf(i) ==
    IF \E k \in DOMAIN out.points : out.points[k] = FileOrder[i + 1]
    THEN CHOOSE k \in DOMAIN out.points : out.points[k] = FileOrder[i + 1]
    ELSE 0

\* the file number of the node at place j of self.points
NumberOf(j) == CHOOSE i \in 0..(Len(FileOrder) - 1) : FileOrder[i + 1] = out.points[j]

\* C25: after construction only the nodes strictly inside the limits are
\* kept, the per-node arrays have the filtered length, and a stored node
\* index i denotes the node at position i of the filtered arrays: the
\* nextnode of a kept node whose successor is kept is the position of that
\* successor.
C25_FilteredIndexing ==
    (out.op = "__init__" /\ out.err = "") =>
        /\ \A j \in DOMAIN out.points :
               ind(out.limits, out.points[j][1], out.points[j][2])
        /\ Len(out.nextnode) = Len(out.points)
        /\ Len(out.prevnode) = Len(out.points)
        /\ \A j \in DOMAIN out.points :
               PlaceOf(mesh_nextnode(NumberOf(j))) # 0 =>
                   out.nextnode[j] = PlaceOf(mesh_nextnode(NumberOf(j))) - 1
\* the last call was to a spline evaluator
SplineDone == out.op \in Tables1d \cup Tables2d \cup {"alpha_sp"}

\* C27: every spline evaluator raises an error for psi outside [0, 1], and
\* never returns a value taken from a coefficient row reached by a
\* wrapped-around or out-of-range index.
C27_SplineRejectsOutside ==
    SplineDone =>
        /\ (out.psi < 0 \/ out.psi > PsiUnit) => out.err # ""
        /\ out.err = "" => out.n \in 0..(npsi - 1)
====
